---------------------------- MODULE Spec2Model ----------------------------
(***************************************************************************)
(* Model of server/src/services/openai.ts: the OpenAIService class         *)
(* (analyzeMealImage, updateMealAnalysis, generateText), the module-level  *)
(* client handle `openai`, and the pure function normalizeAnalysisResult.  *)
(*                                                                         *)
(* Two specifications:                                                     *)
(*   Spec      the service: environment changes, one invocation's life     *)
(*             cycle (guard, remote call, continuation, return);           *)
(*   SpecNorm  normalizeAnalysisResult applied to replies drawn from       *)
(*             bounded sets.                                               *)
(***************************************************************************)
EXTENDS Integers, Sequences, FiniteSets, TLC

VARIABLES
    envKey,       \* process.env.OPENAI_API_KEY is set (truthy) now
    keyAtLoad,    \* history: the credential was set when the module was evaluated
    openai,       \* the module-level client handle: "client" or "null"
    pc,           \* position of the invocation: idle, awaiting, returned, threw
    op,           \* the operation invoked
    language,     \* its language argument
    keyAtInvoke,  \* history: the credential was set when the operation was invoked
    prompt,       \* the system prompt sent with the remote call
    calls,        \* remote chat-completion calls issued by this invocation
    response,     \* how the remote call settled
    error,        \* the error thrown to the caller
    result,       \* the value returned to the caller
    reply,        \* SpecNorm: the parsed reply handed to normalizeAnalysisResult
    isHebrewArg,  \* SpecNorm: its isHebrew argument
    phase,        \* SpecNorm: input, done
    normalized,   \* SpecNorm: the record normalizeAnalysisResult returned
    warned,       \* SpecNorm: console.warn was called
    raised        \* SpecNorm: normalizeAnalysisResult threw

svcVars  == <<envKey, keyAtLoad, openai, pc, op, language, keyAtInvoke,
              prompt, calls, response, error, result>>
normVars == <<reply, isHebrewArg, phase, normalized, warned, raised>>
vars     == <<svcVars, normVars>>

(***************************************************************************)
(* Bounds.                                                                 *)
(***************************************************************************)
MaxIngredients == 2   \* longest ingredient list in a reply
MaxCal == 7           \* largest calorie figure in the calorie replies

(***************************************************************************)
(* JavaScript values, as far as the service handles them.  n carries a     *)
(* number (or a boolean as 0/1, or an object's identity), s a string.      *)
(***************************************************************************)
Undefined == [t |-> "undefined", n |-> 0, s |-> ""]
Null      == [t |-> "null", n |-> 0, s |-> ""]
NaN       == [t |-> "NaN", n |-> 0, s |-> ""]
Num(x)    == [t |-> "number", n |-> x, s |-> ""]
Str(x)    == [t |-> "string", n |-> 0, s |-> x]
Bool(b)   == [t |-> "boolean", n |-> IF b THEN 1 ELSE 0, s |-> ""]
EmptyObject == [t |-> "object", n |-> 0, s |-> ""]   \* the literal {}
SomeObject  == [t |-> "object", n |-> 1, s |-> ""]   \* an object of the reply

\* The decimal literals among the model's strings, with their values.
DecimalLiterals == ("7" :> 7) @@ ("12" :> 12)

\* StringToNumber: the empty string is 0, a decimal literal its value, else NaN.
StringToNumber(str) ==
    IF str = "" THEN Num(0)
    ELSE IF str \in DOMAIN DecimalLiterals THEN Num(DecimalLiterals[str])
    ELSE NaN

\* Number(v)
Number(v) ==
    CASE v.t = "undefined" -> NaN
      [] v.t = "null"      -> Num(0)
      [] v.t = "boolean"   -> Num(v.n)
      [] v.t = "number"    -> v
      [] v.t = "NaN"       -> NaN
      [] v.t = "string"    -> StringToNumber(v.s)
      [] v.t = "object"    -> NaN

\* ToBoolean(v)
Truthy(v) ==
    CASE v.t = "undefined" -> FALSE
      [] v.t = "null"      -> FALSE
      [] v.t = "NaN"       -> FALSE
      [] v.t = "boolean"   -> v.n = 1
      [] v.t = "number"    -> v.n # 0
      [] v.t = "string"    -> v.s # ""
      [] v.t = "object"    -> TRUE

\* Variant: a ?? b.
OrNullish(a, b) == IF a.t \in {"undefined", "null"} THEN b ELSE a

\* a || b
Or(a, b) == IF Truthy(a) THEN a ELSE b

(***************************************************************************)
(* Parsed replies.  A reply object is a function from the property names   *)
(* the service reads to values (Undefined: the property is missing); its   *)
(* `ingredients` property is an array of elements (isArray) or anything    *)
(* else.  An array element is an object or null.                           *)
(***************************************************************************)
MealRequiredKeys == {"calories", "protein", "carbs", "fat", "fiber", "sugar", "sodium"}

MealExtendedKeys ==
    {"saturated_fats_g", "polyunsaturated_fats_g", "monounsaturated_fats_g",
     "omega_3_g", "omega_6_g", "soluble_fiber_g", "insoluble_fiber_g",
     "cholesterol_mg", "alcohol_g", "caffeine_mg", "liquids_ml", "serving_size_g"}

MealIndexKeys == {"glycemic_index", "insulin_index"}

MealTextKeys ==
    {"cooking_method", "cookingMethod", "food_category", "foodCategory",
     "recommendations", "healthNotes", "health_notes", "serving_size", "servingSize"}

MealKeys ==
    {"name", "description", "confidence"} \cup MealRequiredKeys \cup MealTextKeys
    \cup MealExtendedKeys \cup MealIndexKeys
    \cup {"allergens_json", "vitamins_json", "micronutrients_json",
          "processing_level", "additives_json", "health_risk_notes"}

\* canonical field :> <<first name read, second name read>>
IngredientAliases ==
    ("protein" :> <<"protein", "protein_g">>) @@
    ("carbs" :> <<"carbs", "carbs_g">>) @@
    ("fat" :> <<"fat", "fats_g">>) @@
    ("fiber" :> <<"fiber", "fiber_g">>) @@
    ("sugar" :> <<"sugar", "sugar_g">>) @@
    ("sodium_mg" :> <<"sodium_mg", "sodium">>)

IngredientExtendedKeys ==
    {"cholesterol_mg", "saturated_fats_g", "polyunsaturated_fats_g",
     "monounsaturated_fats_g", "omega_3_g", "omega_6_g", "soluble_fiber_g",
     "insoluble_fiber_g", "alcohol_g", "caffeine_mg", "serving_size_g"}

IngredientKeys ==
    {"name", "calories"}
    \cup UNION {{IngredientAliases[c][1], IngredientAliases[c][2]} : c \in DOMAIN IngredientAliases}
    \cup IngredientExtendedKeys
    \cup {"glycemic_index", "insulin_index", "vitamins_json", "micronutrients_json",
          "allergens_json"}

EmptyMeal       == [k \in MealKeys |-> Undefined]
EmptyIngredient == [k \in IngredientKeys |-> Undefined]
ObjectElement(f) == [isObject |-> TRUE, fields |-> f]
NullElement      == [isObject |-> FALSE, fields |-> EmptyIngredient]

(***************************************************************************)
(* normalizeAnalysisResult, lines 312-414.                                 *)
(***************************************************************************)
UnknownMeal(isHebrew) ==
    IF isHebrew THEN Str("he: aruha lo mezuha") ELSE Str("Unknown meal")
UnknownIngredient(isHebrew) ==
    IF isHebrew THEN Str("he: markiv lo mezuhe") ELSE Str("Unknown ingredient")

DefaultConfidence == 75

\* Variant that reads the canonical names only.
normalizeIngredientCanonicalOnly(ingredient, isHebrew) ==
    [name |-> Or(ingredient["name"], UnknownIngredient(isHebrew)),
     calories |-> Or(Number(ingredient["calories"]), Num(0)),
     protein |-> Or(Number(ingredient["protein"]), Num(0)),
     carbs |-> Or(Number(ingredient["carbs"]), Num(0)),
     fat |-> Or(Number(ingredient["fat"]), Num(0)),
     fiber |-> Or(Number(ingredient["fiber"]), Num(0)),
     sugar |-> Or(Number(ingredient["sugar"]), Num(0)),
     sodium_mg |-> Or(Number(ingredient["sodium_mg"]), Num(0)),
     cholesterol_mg |-> Or(Number(ingredient["cholesterol_mg"]), Num(0)),
     saturated_fats_g |-> Or(Number(ingredient["saturated_fats_g"]), Num(0)),
     polyunsaturated_fats_g |-> Or(Number(ingredient["polyunsaturated_fats_g"]), Num(0)),
     monounsaturated_fats_g |-> Or(Number(ingredient["monounsaturated_fats_g"]), Num(0)),
     omega_3_g |-> Or(Number(ingredient["omega_3_g"]), Num(0)),
     omega_6_g |-> Or(Number(ingredient["omega_6_g"]), Num(0)),
     soluble_fiber_g |-> Or(Number(ingredient["soluble_fiber_g"]), Num(0)),
     insoluble_fiber_g |-> Or(Number(ingredient["insoluble_fiber_g"]), Num(0)),
     alcohol_g |-> Or(Number(ingredient["alcohol_g"]), Num(0)),
     caffeine_mg |-> Or(Number(ingredient["caffeine_mg"]), Num(0)),
     serving_size_g |-> Or(Number(ingredient["serving_size_g"]), Num(0)),
     glycemic_index |-> Or(ingredient["glycemic_index"], Null),
     insulin_index |-> Or(ingredient["insulin_index"], Null),
     vitamins_json |-> Or(ingredient["vitamins_json"], EmptyObject),
     micronutrients_json |-> Or(ingredient["micronutrients_json"], EmptyObject),
     allergens_json |-> Or(ingredient["allergens_json"], EmptyObject)]

\* One element of result.ingredients.map(...), lines 331-356.
normalizeIngredient(ingredient, isHebrew) ==
    [name |-> Or(ingredient["name"], UnknownIngredient(isHebrew)),
     calories |-> Or(Number(ingredient["calories"]), Num(0)),
     protein |-> Or(Number(Or(ingredient["protein"], ingredient["protein_g"])), Num(0)),
     carbs |-> Or(Number(Or(ingredient["carbs"], ingredient["carbs_g"])), Num(0)),
     fat |-> Or(Number(Or(ingredient["fat"], ingredient["fats_g"])), Num(0)),
     fiber |-> Or(Number(Or(ingredient["fiber"], ingredient["fiber_g"])), Num(0)),
     sugar |-> Or(Number(Or(ingredient["sugar"], ingredient["sugar_g"])), Num(0)),
     sodium_mg |-> Or(Number(Or(ingredient["sodium_mg"], ingredient["sodium"])), Num(0)),
     cholesterol_mg |-> Or(Number(ingredient["cholesterol_mg"]), Num(0)),
     saturated_fats_g |-> Or(Number(ingredient["saturated_fats_g"]), Num(0)),
     polyunsaturated_fats_g |-> Or(Number(ingredient["polyunsaturated_fats_g"]), Num(0)),
     monounsaturated_fats_g |-> Or(Number(ingredient["monounsaturated_fats_g"]), Num(0)),
     omega_3_g |-> Or(Number(ingredient["omega_3_g"]), Num(0)),
     omega_6_g |-> Or(Number(ingredient["omega_6_g"]), Num(0)),
     soluble_fiber_g |-> Or(Number(ingredient["soluble_fiber_g"]), Num(0)),
     insoluble_fiber_g |-> Or(Number(ingredient["insoluble_fiber_g"]), Num(0)),
     alcohol_g |-> Or(Number(ingredient["alcohol_g"]), Num(0)),
     caffeine_mg |-> Or(Number(ingredient["caffeine_mg"]), Num(0)),
     serving_size_g |-> Or(Number(ingredient["serving_size_g"]), Num(0)),
     glycemic_index |-> Or(ingredient["glycemic_index"], Null),
     insulin_index |-> Or(ingredient["insulin_index"], Null),
     vitamins_json |-> Or(ingredient["vitamins_json"], EmptyObject),
     micronutrients_json |-> Or(ingredient["micronutrients_json"], EmptyObject),
     allergens_json |-> Or(ingredient["allergens_json"], EmptyObject)]

\* Reading a property of a null array element throws a TypeError (line 332).
IngredientsThrow(res) ==
    res.isArray /\ \E i \in 1..Len(res.ingredients) : ~res.ingredients[i].isObject

\* The object literal of lines 317-388.
BuildNormalized(res, isHebrew) ==
    LET r == res.fields IN
    [name |-> Or(r["name"], UnknownMeal(isHebrew)),
     description |-> Or(r["description"], Str("")),
     calories |-> Or(Number(r["calories"]), Num(0)),
     protein |-> Or(Number(r["protein"]), Num(0)),
     carbs |-> Or(Number(r["carbs"]), Num(0)),
     fat |-> Or(Number(r["fat"]), Num(0)),
     fiber |-> Or(Number(r["fiber"]), Num(0)),
     sugar |-> Or(Number(r["sugar"]), Num(0)),
     sodium |-> Or(Number(r["sodium"]), Num(0)),
     confidence |-> Or(Number(r["confidence"]), Num(DefaultConfidence)),
     ingredients |->
        IF res.isArray
        THEN [i \in 1..Len(res.ingredients) |->
                 normalizeIngredient(res.ingredients[i].fields, isHebrew)]
        ELSE <<>>,
     cooking_method |-> Or(Or(r["cooking_method"], r["cookingMethod"]), Str("")),
     food_category |-> Or(Or(r["food_category"], r["foodCategory"]), Str("")),
     recommendations |-> Or(Or(r["recommendations"], r["healthNotes"]), Str("")),
     servingSize |-> Or(Or(r["serving_size"], r["servingSize"]), Str("1 serving")),
     cookingMethod |-> Or(Or(r["cooking_method"], r["cookingMethod"]), Str("")),
     healthNotes |-> Or(Or(r["recommendations"], r["health_notes"]), Str("")),
     saturated_fats_g |-> Or(Number(r["saturated_fats_g"]), Undefined),
     polyunsaturated_fats_g |-> Or(Number(r["polyunsaturated_fats_g"]), Undefined),
     monounsaturated_fats_g |-> Or(Number(r["monounsaturated_fats_g"]), Undefined),
     omega_3_g |-> Or(Number(r["omega_3_g"]), Undefined),
     omega_6_g |-> Or(Number(r["omega_6_g"]), Undefined),
     soluble_fiber_g |-> Or(Number(r["soluble_fiber_g"]), Undefined),
     insoluble_fiber_g |-> Or(Number(r["insoluble_fiber_g"]), Undefined),
     cholesterol_mg |-> Or(Number(r["cholesterol_mg"]), Undefined),
     alcohol_g |-> Or(Number(r["alcohol_g"]), Undefined),
     caffeine_mg |-> Or(Number(r["caffeine_mg"]), Undefined),
     liquids_ml |-> Or(Number(r["liquids_ml"]), Undefined),
     serving_size_g |-> Or(Number(r["serving_size_g"]), Undefined),
     allergens_json |-> Or(r["allergens_json"], EmptyObject),
     vitamins_json |-> Or(r["vitamins_json"], EmptyObject),
     micronutrients_json |-> Or(r["micronutrients_json"], EmptyObject),
     glycemic_index |-> Or(r["glycemic_index"], Undefined),
     insulin_index |-> Or(r["insulin_index"], Undefined),
     processing_level |-> Or(r["processing_level"], Str("")),
     additives_json |-> Or(r["additives_json"], EmptyObject),
     health_risk_notes |-> Or(r["health_risk_notes"], Undefined)]

\* ingredientTotals.calories: the reduce of lines 392-400, over integers.
RECURSIVE SumCalories(_)
SumCalories(ings) ==
    IF ings = <<>> THEN 0
    ELSE SumCalories(SubSeq(ings, 1, Len(ings) - 1)) + ings[Len(ings)].calories.n

Abs(x) == IF x < 0 THEN -x ELSE x

\* caloriesDiff > normalized.calories * 0.2 (lines 403-404); on integers
\* d > c * 0.2 is 5 * d > c.
CaloriesMismatch(ingredientCalories, mealCalories) ==
    5 * Abs(ingredientCalories - mealCalories) > mealCalories

\* The validation block, lines 391-411: is console.warn called.
TotalsWarning(norm) ==
    /\ Len(norm.ingredients) > 0
    /\ CaloriesMismatch(SumCalories(norm.ingredients), norm.calories.n)

NoRecord == BuildNormalized([fields |-> EmptyMeal, isArray |-> FALSE, ingredients |-> <<>>], FALSE)

\* Variant that replaces the meal total by the ingredient total on a mismatch.
normalizeAnalysisResultCorrecting(res, isHebrew) ==
    IF IngredientsThrow(res)
    THEN [threw |-> TRUE, warned |-> FALSE, value |-> NoRecord]
    ELSE LET norm == BuildNormalized(res, isHebrew)
         IN  [threw |-> FALSE, warned |-> TotalsWarning(norm),
              value |-> IF TotalsWarning(norm)
                        THEN [norm EXCEPT !.calories = Num(SumCalories(norm.ingredients))]
                        ELSE norm]

\* normalizeAnalysisResult(result, isHebrew): the record returned (line 413),
\* whether it warned, whether it threw instead of returning.
normalizeAnalysisResult(res, isHebrew) ==
    IF IngredientsThrow(res)
    THEN [threw |-> TRUE, warned |-> FALSE, value |-> NoRecord]
    ELSE LET norm == BuildNormalized(res, isHebrew)
         IN  [threw |-> FALSE, warned |-> TotalsWarning(norm), value |-> norm]

(***************************************************************************)
(* The replies SpecNorm draws from.                                        *)
(***************************************************************************)
\* What a property of a reply can hold when it is present.
PropertyValues ==
    {Null, Num(0), Num(5), Num(-3), Str("abc"), Str("7"), Bool(TRUE), SomeObject}
MaybeValues == PropertyValues \cup {Undefined}

Reply(f, isArr, ings) == [fields |-> f, isArray |-> isArr, ingredients |-> ings]

\* Objects over the property names `keys` with one property present (or
\* none), and those with every property holding the same value.
SingleProperty(keys) ==
    {[k \in keys |-> IF k = k1 THEN v ELSE Undefined] : k1 \in keys, v \in MaybeValues}
UniformObjects(keys) == {[k \in keys |-> v] : v \in PropertyValues}

\* Ingredient objects in which the two names of one aliased nutrient hold
\* any two values.
AliasedIngredients ==
    {[k \in IngredientKeys |->
         IF k = IngredientAliases[c][1] THEN v1
         ELSE IF k = IngredientAliases[c][2] THEN v2 ELSE Undefined] :
        c \in DOMAIN IngredientAliases, v1 \in MaybeValues, v2 \in MaybeValues}

\* Sequences over S of length 0..n.
SeqUpTo(S, n) == UNION {[1..m -> S] : m \in 0..n}

\* Replies without an ingredient array.
MealReplies ==
    {Reply(f, FALSE, <<>>) : f \in SingleProperty(MealKeys) \cup UniformObjects(MealKeys)}

\* Replies whose ingredient array has one ingredient with properties, the
\* other ingredients being empty objects.
IngredientReplies ==
    {Reply(EmptyMeal, TRUE,
           [i \in 1..m |-> ObjectElement(IF i = j THEN f ELSE EmptyIngredient)]) :
        m \in 1..MaxIngredients, j \in 1..MaxIngredients,
        f \in SingleProperty(IngredientKeys) \cup UniformObjects(IngredientKeys)
              \cup AliasedIngredients}

\* Replies over the duplicated text properties.
TextValues == {Undefined, Str("grilled"), Str("fried")}
TextReplies ==
    {Reply([k \in MealKeys |->
               CASE k = "cooking_method"  -> a
                 [] k = "cookingMethod"   -> b
                 [] k = "recommendations" -> c
                 [] k = "healthNotes"     -> d
                 [] k = "health_notes"    -> e
                 [] OTHER                 -> Undefined],
           FALSE, <<>>) :
        a \in TextValues, b \in TextValues, c \in TextValues,
        d \in TextValues, e \in TextValues}

\* Replies with a meal calorie total and a calorie figure per ingredient.
CalorieValues == {Undefined} \cup {Num(c) : c \in 0..MaxCal}
CalorieReplies ==
    {Reply([EmptyMeal EXCEPT !["calories"] = total], TRUE,
           [i \in DOMAIN cs |->
               ObjectElement([EmptyIngredient EXCEPT !["calories"] = cs[i]])]) :
        total \in CalorieValues, cs \in SeqUpTo(CalorieValues, MaxIngredients)}

\* Replies whose ingredient array holds a null.
NullElementReplies ==
    {Reply([EmptyMeal EXCEPT !["calories"] = total], TRUE, es) :
        total \in {Undefined, Num(5)},
        es \in {e \in SeqUpTo({NullElement,
                               ObjectElement([EmptyIngredient EXCEPT !["calories"] = Num(5)])},
                              MaxIngredients) :
                   \E i \in DOMAIN e : ~e[i].isObject}}

ReplySet ==
    MealReplies \cup IngredientReplies \cup TextReplies \cup CalorieReplies
    \cup NullElementReplies

(***************************************************************************)
(* The service's variables at rest (SpecNorm leaves them alone).           *)
(***************************************************************************)
NoError    == [msg |-> "", fromProvider |-> FALSE, text |-> {}]
NoResult   == [kind |-> "none", text |-> "", meal |-> NoRecord]
NoPrompt   == [base |-> "none", context |-> "none"]
NoResponse == [kind |-> "none", isError |-> FALSE, text |-> {},
               reply |-> Reply(EmptyMeal, FALSE, <<>>)]

(***************************************************************************)
(* SpecNorm: normalizeAnalysisResult applied to a drawn reply.             *)
(***************************************************************************)
NormInit ==
    /\ reply \in ReplySet
    /\ isHebrewArg \in BOOLEAN
    /\ phase = "input"
    /\ normalized = NoRecord
    /\ warned = FALSE
    /\ raised = FALSE
    /\ envKey = FALSE /\ keyAtLoad = FALSE /\ openai = "null"
    /\ pc = "idle" /\ op = "none" /\ language = "english" /\ keyAtInvoke = FALSE
    /\ prompt = NoPrompt /\ calls = 0 /\ response = NoResponse
    /\ error = NoError /\ result = NoResult

Normalize ==
    /\ phase = "input"
    /\ LET out == normalizeAnalysisResult(reply, isHebrewArg)
       IN  /\ normalized' = out.value
           /\ warned' = out.warned
           /\ raised' = out.threw
    /\ phase' = "done"
    /\ UNCHANGED <<reply, isHebrewArg, svcVars>>

NormNext == Normalize

SpecNorm == NormInit /\ [][NormNext]_vars

(***************************************************************************)
(* The service.                                                            *)
(***************************************************************************)
\* const openai = process.env.OPENAI_API_KEY ? new OpenAI(...) : null
ModuleHandle(key) == IF key THEN "client" ELSE "null"

\* Variants of the guard: one that forgets the environment, one that forgets
\* the handle.
NotConfiguredHandleOnly(handle, key) == handle = "null"
NotConfiguredKeyOnly(handle, key) == ~key

\* !openai || !process.env.OPENAI_API_KEY
NotConfigured(handle, key) == handle = "null" \/ ~key

NotConfiguredMessage == "OpenAI API key not configured"
QuotaMessage   == "AI analysis quota exceeded. Please try again later."
RateMessage    == "Too many requests. Please wait a moment and try again."
ImageMessage   == "Invalid image format. Please try a different image."
GenericMessage == "AI analysis failed. Please try again."
UpdateFailedMessage == "Failed to update meal analysis"
NoContentMessage    == "No response content from OpenAI"

\* An error object: its message, whether it is the object the provider's
\* client rejected with, and which of the matched substrings its text holds.
ServiceError(m) == [msg |-> m, fromProvider |-> FALSE, text |-> {}]

\* language: string = "english"
Omitted == "<omitted>"
LanguageArg(l) == IF l = Omitted THEN "english" ELSE l

\* Variant: everything but "english" is Hebrew.
isHebrewUnlessEnglish(lang) == lang # "english"

\* const isHebrew = language === "hebrew"
isHebrew(lang) == lang = "hebrew"

\* The prompt builders return text in one of two languages.
buildAnalysisPrompt(he) == IF he THEN "he: analysis prompt" ELSE "en: analysis prompt"
buildUpdateContext(he)  == IF he THEN "he: update context" ELSE "en: update context"
buildUpdatePrompt(he)   == IF he THEN "he: update prompt" ELSE "en: update prompt"

\* What is thrown inside the try block of analyzeMealImage / updateMealAnalysis
\* once the remote call has settled (lines 65-92, 127-151): thrown.isError is
\* `instanceof Error`, thrown.text the matched substrings its message holds.
TrySettles(resp, he) ==
    CASE resp.kind = "rejected" ->
            [threw |-> TRUE, isError |-> resp.isError, text |-> resp.text, out |-> NoRecord]
      [] resp.kind = "empty" ->
            [threw |-> TRUE, isError |-> TRUE, text |-> {}, out |-> NoRecord]
      [] resp.kind = "unparseable" ->
            [threw |-> TRUE, isError |-> TRUE, text |-> resp.text, out |-> NoRecord]
      [] resp.kind = "parsedNull" ->
            [threw |-> TRUE, isError |-> TRUE, text |-> {}, out |-> NoRecord]
      [] resp.kind = "parsed" ->
            LET n == normalizeAnalysisResult(resp.reply, he)
            IN  [threw |-> n.threw, isError |-> TRUE, text |-> {}, out |-> n.value]

\* Variant of the catch block without the rate-limit branch.
TranslateErrorNoRate(thrown) ==
    IF thrown.isError /\ "quota" \in thrown.text THEN ServiceError(QuotaMessage)
    ELSE IF thrown.isError /\ "invalid_request_error" \in thrown.text
         THEN ServiceError(ImageMessage)
    ELSE ServiceError(GenericMessage)

\* The catch block of analyzeMealImage, lines 94-108.
TranslateError(thrown) ==
    IF thrown.isError /\ "quota" \in thrown.text THEN ServiceError(QuotaMessage)
    ELSE IF thrown.isError /\ "rate limit" \in thrown.text THEN ServiceError(RateMessage)
    ELSE IF thrown.isError /\ "invalid_request_error" \in thrown.text
         THEN ServiceError(ImageMessage)
    ELSE ServiceError(GenericMessage)

(***************************************************************************)
(* Inputs and remote outcomes.                                             *)
(***************************************************************************)
Languages == {Omitted, "english", "hebrew", "Hebrew", "spanish"}
Fragments == {"quota", "rate limit", "invalid_request_error"}

NamedIngredient   == ObjectElement([EmptyIngredient EXCEPT !["name"] = Str("Rice")])
UnnamedIngredient == ObjectElement(EmptyIngredient)
ReplySamples ==
    {Reply([EmptyMeal EXCEPT !["name"] = nm], TRUE, ings) :
        nm \in {Undefined, Str(""), Str("Salad")},
        ings \in {<<>>, <<NamedIngredient, UnnamedIngredient>>, <<NullElement>>}}
    \cup {Reply(EmptyMeal, FALSE, <<>>)}

Response(k, isErr, txt, rep) == [kind |-> k, isError |-> isErr, text |-> txt, reply |-> rep]
NoReply == Reply(EmptyMeal, FALSE, <<>>)

\* The remote call rejects (with an Error or with something else), resolves
\* without content, or resolves with content that extractCleanJSON/JSON.parse
\* reject, parse to null, or parse to an object.
Responses ==
    {Response("rejected", e, txt, NoReply) : e \in BOOLEAN, txt \in SUBSET Fragments}
    \cup {Response("empty", FALSE, {}, NoReply)}
    \cup {Response("unparseable", FALSE, txt, NoReply) : txt \in SUBSET Fragments}
    \cup {Response("parsedNull", FALSE, {}, NoReply)}
    \cup {Response("parsed", FALSE, {}, rep) : rep \in ReplySamples}

\* generateText does not parse: content is content.
TextResponses ==
    {r \in Responses : r.kind \in {"rejected", "empty"}}
    \cup {Response("content", FALSE, {}, NoReply)}

Init ==
    /\ keyAtLoad \in BOOLEAN
    /\ envKey = keyAtLoad
    /\ openai = ModuleHandle(keyAtLoad)
    /\ pc = "idle" /\ op = "none" /\ language = "english" /\ keyAtInvoke = FALSE
    /\ prompt = NoPrompt /\ calls = 0 /\ response = NoResponse
    /\ error = NoError /\ result = NoResult
    /\ reply = NoReply /\ isHebrewArg = FALSE /\ phase = "input"
    /\ normalized = NoRecord /\ warned = FALSE /\ raised = FALSE

\* The credential appears in, or disappears from, the process environment.
SetEnv ==
    /\ ~envKey
    /\ envKey' = TRUE
    /\ UNCHANGED <<keyAtLoad, openai, pc, op, language, keyAtInvoke, prompt, calls,
                   response, error, result, normVars>>

UnsetEnv ==
    /\ envKey
    /\ envKey' = FALSE
    /\ UNCHANGED <<keyAtLoad, openai, pc, op, language, keyAtInvoke, prompt, calls,
                   response, error, result, normVars>>

\* analyzeMealImage up to the await: the guard of lines 18-20, the prompt of
\* lines 28-36, the remote call of line 65.
analyzeMealImage ==
    \E l \in Languages, updateText \in {"", "less rice"}, editedIngredients \in 0..1 :
        LET lang == LanguageArg(l)
            he == isHebrew(lang)
        IN
        /\ pc = "idle"
        /\ op' = "analyzeMealImage"
        /\ language' = lang
        /\ keyAtInvoke' = envKey
        /\ response' = NoResponse
        /\ result' = NoResult
        /\ IF NotConfigured(openai, envKey)
           THEN /\ pc' = "threw"
                /\ error' = ServiceError(NotConfiguredMessage)
                /\ prompt' = NoPrompt
                /\ calls' = 0
           ELSE /\ pc' = "awaiting"
                /\ error' = NoError
                /\ prompt' = [base |-> buildAnalysisPrompt(he),
                              context |-> IF updateText # "" \/ editedIngredients > 0
                                          THEN buildUpdateContext(he) ELSE "none"]
                /\ calls' = calls + 1
        /\ UNCHANGED <<envKey, keyAtLoad, openai, normVars>>

\* updateMealAnalysis up to the await: lines 116-127.
updateMealAnalysis ==
    \E l \in Languages :
        LET lang == LanguageArg(l)
        IN
        /\ pc = "idle"
        /\ op' = "updateMealAnalysis"
        /\ language' = lang
        /\ keyAtInvoke' = envKey
        /\ response' = NoResponse
        /\ result' = NoResult
        /\ IF NotConfigured(openai, envKey)
           THEN /\ pc' = "threw"
                /\ error' = ServiceError(NotConfiguredMessage)
                /\ prompt' = NoPrompt
                /\ calls' = 0
           ELSE /\ pc' = "awaiting"
                /\ error' = NoError
                /\ prompt' = [base |-> buildUpdatePrompt(isHebrew(lang)), context |-> "none"]
                /\ calls' = calls + 1
        /\ UNCHANGED <<envKey, keyAtLoad, openai, normVars>>

\* generateText up to the await: lines 160-165 (it takes no language).
generateText ==
    /\ pc = "idle"
    /\ op' = "generateText"
    /\ language' = "english"
    /\ keyAtInvoke' = envKey
    /\ response' = NoResponse
    /\ result' = NoResult
    /\ IF NotConfigured(openai, envKey)
       THEN /\ pc' = "threw"
            /\ error' = ServiceError(NotConfiguredMessage)
            /\ prompt' = NoPrompt
            /\ calls' = 0
       ELSE /\ pc' = "awaiting"
            /\ error' = NoError
            /\ prompt' = [base |-> "caller's prompt", context |-> "none"]
            /\ calls' = calls + 1
    /\ UNCHANGED <<envKey, keyAtLoad, openai, normVars>>

\* analyzeMealImage resumes after the await, lines 72-108.
analyzeMealImageResumes ==
    /\ pc = "awaiting" /\ op = "analyzeMealImage"
    /\ \E resp \in Responses :
          LET t == TrySettles(resp, isHebrew(language))
          IN  /\ response' = resp
              /\ IF t.threw
                 THEN /\ pc' = "threw"
                      /\ error' = TranslateError(t)
                      /\ result' = NoResult
                 ELSE /\ pc' = "returned"
                      /\ error' = NoError
                      /\ result' = [kind |-> "meal", text |-> "", meal |-> t.out]
    /\ UNCHANGED <<envKey, keyAtLoad, openai, op, language, keyAtInvoke, prompt, calls,
                   normVars>>

\* updateMealAnalysis resumes after the await, lines 143-156.
updateMealAnalysisResumes ==
    /\ pc = "awaiting" /\ op = "updateMealAnalysis"
    /\ \E resp \in Responses :
          LET t == TrySettles(resp, isHebrew(language))
          IN  /\ response' = resp
              /\ IF t.threw
                 THEN /\ pc' = "threw"
                      /\ error' = ServiceError(UpdateFailedMessage)
                      /\ result' = NoResult
                 ELSE /\ pc' = "returned"
                      /\ error' = NoError
                      /\ result' = [kind |-> "meal", text |-> "", meal |-> t.out]
    /\ UNCHANGED <<envKey, keyAtLoad, openai, op, language, keyAtInvoke, prompt, calls,
                   normVars>>

\* generateText resumes after the await, lines 177-181.
generateTextResumes ==
    /\ pc = "awaiting" /\ op = "generateText"
    /\ \E resp \in TextResponses :
          /\ response' = resp
          /\ IF resp.kind = "rejected"
             THEN /\ pc' = "threw"
                  /\ error' = [msg |-> "provider's message", fromProvider |-> TRUE,
                               text |-> resp.text]
                  /\ result' = NoResult
             ELSE /\ pc' = "returned"
                  /\ error' = NoError
                  /\ result' = [kind |-> "text",
                                text |-> IF resp.kind = "empty" THEN "" ELSE "content",
                                meal |-> NoRecord]
    /\ UNCHANGED <<envKey, keyAtLoad, openai, op, language, keyAtInvoke, prompt, calls,
                   normVars>>

\* The caller has its value or its error; the next invocation can start.
Finish ==
    /\ pc \in {"returned", "threw"}
    /\ pc' = "idle"
    /\ op' = "none" /\ language' = "english" /\ keyAtInvoke' = FALSE
    /\ prompt' = NoPrompt /\ calls' = 0 /\ response' = NoResponse
    /\ error' = NoError /\ result' = NoResult
    /\ UNCHANGED <<envKey, keyAtLoad, openai, normVars>>

Next ==
    \/ SetEnv
    \/ UnsetEnv
    \/ analyzeMealImage
    \/ updateMealAnalysis
    \/ generateText
    \/ analyzeMealImageResumes
    \/ updateMealAnalysisResumes
    \/ generateTextResumes
    \/ Finish

Spec == Init /\ [][Next]_vars

(***************************************************************************)
(* Claims about the service (checked under Spec).                          *)
(***************************************************************************)
Settled == pc \in {"returned", "threw"}
Invoked == pc # "idle"

\* C1: when no credential is configured at the invocation, the operation
\* (any of the three) fails with the "OpenAI API key not configured" error
\* and issues no remote call.
C1_NotConfiguredNoCall ==
    (Invoked /\ ~keyAtInvoke) =>
        /\ pc = "threw"
        /\ error = ServiceError(NotConfiguredMessage)
        /\ calls = 0

C1_Witness ==
    /\ pc = "threw"
    /\ ~keyAtInvoke
    /\ openai = "client"
    /\ op = "generateText"
    /\ error.msg = NotConfiguredMessage
    /\ calls = 0

\* The message was chosen by matching substrings of the provider's text.
ChosenBySubstring ==
    /\ error.msg \in {QuotaMessage, RateMessage, ImageMessage, GenericMessage}
    /\ error.msg = QuotaMessage => "quota" \in response.text
    /\ error.msg = RateMessage => "rate limit" \in response.text
    /\ error.msg = ImageMessage => "invalid_request_error" \in response.text
    /\ error.msg = GenericMessage => (~response.isError \/ response.text = {})
    /\ ~error.fromProvider

RemoteFailed == Settled /\ response.kind = "rejected"

\* C2 as stated: in every operation, when the remote call fails the caller
\* gets one of the four user-facing messages (quota, rate limit, image format,
\* generic), chosen by substring match, and never the provider's own error.
C2_FourMessagesEverywhere ==
    RemoteFailed => (pc = "threw" /\ ChosenBySubstring)

\* C2 amended: when the remote call fails, analyzeMealImage throws one of the
\* four user-facing messages chosen by substring match and never the
\* provider's error; updateMealAnalysis throws the single message "Failed to
\* update meal analysis"; generateText rethrows the provider's own error.
C2_ErrorTranslationPerOperation ==
    RemoteFailed =>
        /\ pc = "threw"
        /\ op = "analyzeMealImage" => ChosenBySubstring
        /\ op = "updateMealAnalysis" => error = ServiceError(UpdateFailedMessage)
        /\ op = "generateText" => (error.fromProvider /\ error.text = response.text)

C2_Witness ==
    /\ RemoteFailed
    /\ op = "analyzeMealImage"
    /\ response.isError
    /\ response.text = {"rate limit", "invalid_request_error"}
    /\ error.msg = RateMessage

HebrewTexts ==
    {"he: analysis prompt", "he: update context", "he: update prompt",
     "he: aruha lo mezuha", "he: markiv lo mezuhe"}
EnglishTexts ==
    {"en: analysis prompt", "en: update context", "en: update prompt",
     "Unknown meal", "Unknown ingredient"}
InLanguage(text) ==
    IF language = "hebrew" THEN text \in HebrewTexts ELSE text \in EnglishTexts

\* C7: in analyzeMealImage and updateMealAnalysis the prompt text and the
\* placeholder names (for a missing meal name, a missing ingredient name) are
\* Hebrew exactly when the language argument is "hebrew" and English for
\* every other value, and they agree within one call.
C7_LanguageSelection ==
    (op \in {"analyzeMealImage", "updateMealAnalysis"}) =>
        /\ calls > 0 =>
              /\ InLanguage(prompt.base)
              /\ prompt.context # "none" => InLanguage(prompt.context)
        /\ pc = "returned" =>
              /\ ~Truthy(response.reply.fields["name"]) => InLanguage(result.meal.name.s)
              /\ \A i \in 1..Len(result.meal.ingredients) :
                    ~Truthy(response.reply.ingredients[i].fields["name"])
                        => InLanguage(result.meal.ingredients[i].name.s)

C7_Witness ==
    /\ op = "analyzeMealImage"
    /\ pc = "returned"
    /\ language = "hebrew"
    /\ prompt = [base |-> "he: analysis prompt", context |-> "he: update context"]
    /\ result.meal.name = Str("he: aruha lo mezuha")
    /\ Len(result.meal.ingredients) = 2
    /\ result.meal.ingredients[1].name = Str("Rice")
    /\ result.meal.ingredients[2].name = Str("he: markiv lo mezuhe")

HandleDecidedAtLoad ==
    /\ ~keyAtLoad =>
          /\ openai = "null"
          /\ Invoked =>
                (pc = "threw" /\ error = ServiceError(NotConfiguredMessage) /\ calls = 0)
    /\ calls > 0 => (openai = "client" /\ keyAtInvoke)

\* C9: the client handle never changes after the module is loaded; if the
\* credential was absent then, the handle stays unset and every later
\* operation fails with the not-configured error even when the credential is
\* set afterwards; and an operation issues a remote call only if the handle is
\* set and the credential is present at the call.
C9_HandleSetOnce == [][openai' = openai]_vars /\ []HandleDecidedAtLoad

C9_Witness ==
    /\ ~keyAtLoad
    /\ keyAtInvoke
    /\ envKey
    /\ pc = "threw"
    /\ error.msg = NotConfiguredMessage
    /\ calls = 0

(***************************************************************************)
(* Claims about normalizeAnalysisResult (checked under SpecNorm).          *)
(***************************************************************************)
\* Number(v) is a number, not NaN.
Coerces(v) == Number(v).t = "number"

Returned == phase = "done" /\ ~raised

\* <<canonical field, first name, second name>> of the aliased nutrients.
AliasedNutrients ==
    {<<"protein", "protein", "protein_g">>, <<"carbs", "carbs", "carbs_g">>,
     <<"fat", "fat", "fats_g">>, <<"fiber", "fiber", "fiber_g">>,
     <<"sugar", "sugar", "sugar_g">>, <<"sodium_mg", "sodium_mg", "sodium">>}

IngredientNumbersDefaulted(raw, norm) ==
    /\ norm.calories.t = "number"
    /\ ~Coerces(raw["calories"]) => norm.calories = Num(0)
    /\ \A nutrient \in AliasedNutrients :
          /\ norm[nutrient[1]].t = "number"
          /\ (~Coerces(raw[nutrient[2]]) /\ ~Coerces(raw[nutrient[3]]))
                 => norm[nutrient[1]] = Num(0)

RequiredNumbersDefaulted(confidenceDefault) ==
    Returned =>
        /\ \A f \in MealRequiredKeys :
              /\ normalized[f].t = "number"
              /\ ~Coerces(reply.fields[f]) => normalized[f] = Num(0)
        /\ normalized.confidence.t = "number"
        /\ ~Coerces(reply.fields["confidence"]) =>
               normalized.confidence = Num(confidenceDefault)
        /\ \A i \in 1..Len(normalized.ingredients) :
              IngredientNumbersDefaulted(reply.ingredients[i].fields,
                                         normalized.ingredients[i])

\* C3 as stated: every required numeric field of the normalized meal record
\* (calories, protein, carbs, fat, fiber, sugar, sodium, confidence) and of
\* every normalized ingredient is a number, never NaN or undefined, and is 0
\* when the field is missing or non-numeric in the reply.
C3_RequiredDefaultZero == RequiredNumbersDefaulted(0)

\* C3 amended: every required numeric field of the normalized meal record and
\* of every normalized ingredient is a number, never NaN or undefined; when
\* the field (for an aliased ingredient nutrient: both of its names) is
\* missing or does not coerce to a number, its normalized value is 0, except
\* confidence, whose value is then 75.
C3_RequiredDefaulted == RequiredNumbersDefaulted(75)

C3_Witness ==
    /\ Returned
    /\ reply.fields["calories"] = Str("abc")
    /\ reply.fields["confidence"] = Str("abc")
    /\ normalized.calories = Num(0)
    /\ normalized.confidence = Num(75)

\* C4: for each meal-level extended nutrient field the result is undefined
\* when the reply omits the field, and 0 when the reply provides the value 0.
C4_ExtendedDistinguishesZero ==
    Returned =>
        \A f \in MealExtendedKeys \cup MealIndexKeys :
            /\ reply.fields[f] = Undefined => normalized[f] = Undefined
            /\ reply.fields[f] = Num(0) => normalized[f] = Num(0)

\* C5: for every ingredient and every aliased nutrient, if exactly one of the
\* two names is present and holds a number, the canonical normalized field
\* equals that number, whichever name carried it.
C5_AliasValueKept ==
    Returned =>
        \A i \in 1..Len(normalized.ingredients) :
            \A pair \in AliasedNutrients :
                LET raw == reply.ingredients[i].fields
                    a == raw[pair[2]]
                    b == raw[pair[3]]
                    out == normalized.ingredients[i][pair[1]]
                IN  /\ (a.t = "number" /\ b = Undefined) => out = a
                    /\ (b.t = "number" /\ a = Undefined) => out = b

C5_Witness ==
    /\ Returned
    /\ Len(normalized.ingredients) = 2
    /\ reply.ingredients[2].fields["fat"] = Undefined
    /\ reply.ingredients[2].fields["fats_g"] = Num(5)
    /\ normalized.ingredients[2].fat = Num(5)

\* The record of lines 317-388 for the drawn reply, and the two calorie
\* figures the validation block compares.
ExpectedRecord == BuildNormalized(reply, isHebrewArg)
CalorieFiguresMismatch ==
    /\ ~IngredientsThrow(reply)
    /\ CaloriesMismatch(SumCalories(ExpectedRecord.ingredients), ExpectedRecord.calories.n)

WarnsAndReturnsUnchanged ==
    /\ warned
    /\ ~raised
    /\ normalized = ExpectedRecord

\* C6 as stated: for every parsed reply in which the sum of the ingredients'
\* calories differs from the meal-level calorie total by more than 20% of
\* that total, normalization warns, raises no error and returns the
\* normalized record unaltered.
C6_AnyMismatchWarns ==
    (phase = "done" /\ CalorieFiguresMismatch) => WarnsAndReturnsUnchanged

\* C6 amended: for every parsed reply with at least one ingredient in which
\* the sum of the ingredients' calories differs from the meal-level calorie
\* total by more than 20% of that total, normalization warns, raises no error
\* and returns the normalized record unaltered.
C6_MismatchWarnsOnly ==
    (phase = "done" /\ CalorieFiguresMismatch /\ Len(ExpectedRecord.ingredients) > 0)
        => WarnsAndReturnsUnchanged

C6_Witness ==
    /\ Returned
    /\ warned
    /\ Len(normalized.ingredients) = 2
    /\ normalized.calories = Num(5)
    /\ SumCalories(normalized.ingredients) = 7
    /\ normalized = ExpectedRecord

\* C10: in every record returned, cooking_method equals cookingMethod and
\* recommendations equals healthNotes.
C10_DuplicatedFieldsAgree ==
    Returned =>
        /\ normalized.cooking_method = normalized.cookingMethod
        /\ normalized.recommendations = normalized.healthNotes

=============================================================================
